---- MODULE Spec2Model ----
(***************************************************************************)
(* Switchover engine of swo/execute.go: change-log drain (SyncChanges,     *)
(* LoopSync, syncChangeLog, fetch, apply), pause polling (DoExecute) and   *)
(* the stop-the-world cutover (FinalSync).                                 *)
(*                                                                         *)
(* A database operation is one atomic step.  Every operation takes the     *)
(* context and fails once the context is cancelled; it may also fail for   *)
(* any other reason.  The serializable read-only source transaction of a   *)
(* drain iteration reads one snapshot, so syncChangeLog is one step.       *)
(***************************************************************************)
EXTENDS Integers, Sequences, FiniteSets, TLC

\* ----------------------------------------------------------------- bounds
MaxWrites == 2      \* source writes issued by the application
MaxId == 2          \* table a holds the primary keys 1..MaxId, the other tables 1
MaxNodes == 2       \* nodes in a Status() snapshot
MaxTasks == 2       \* resume-after tasks one node may report

\* ------------------------------------------------------------- data model
Drivers == {1, 2}
TableOrder == <<"a", "s", "b">>          \* rt.tables, in declared order
Tables == {TableOrder[i] : i \in 1..Len(TableOrder)}
SkipSync(t) == t = "s"
Keys == (Tables \X {1}) \cup ({"a"} \X (1..MaxId))
SyncKeys == {k \in Keys : ~SkipSync(k[1])}
Absent == 0
NoWrite == -1

VARIABLES
  src,           \* source rows: key -> value, Absent when the row does not exist
  dst,           \* committed destination rows
  changeLog,     \* source table change_log: set of [id, key]
  nextId,        \* change_log_id_seq
  nWrites,       \* writes issued so far
  srcSeq,        \* a source sequence (last_value)
  dstSeq,        \* the same sequence in the destination
  swState,       \* switchover_state.current_state, committed value
  lockHolder,    \* driver whose source transaction holds the advisory lock, or 0
  dstTriggers,   \* TRUE when user triggers are enabled in the destination
  cancelled,     \* ctx.Err() # nil
  pc,            \* per driver: position in DoExecute / SyncChanges / LoopSync / FinalSync
  caller,        \* per driver: who called SyncChanges ("converge" or "final")
  rt,            \* per driver: row tracker [base, add, del]
  ids,           \* per driver: changeIDs returned by syncChangeLog
  snapIds,       \* per driver: every change_log id in the snapshot syncChangeLog read
  dstW,          \* per driver: write set of the open destination transaction
  dstSeqW,       \* per driver: setval pending in the destination transaction
  dstTx,         \* per driver: "none", "open", "committed"
  srcTx,         \* per driver: "none", "open", "committed"
  srcFlip,       \* per driver: update of switchover_state pending in the source tx
  result,        \* per driver: what DoExecute / FinalSync returned ("" while running)
  syncResult,    \* per driver: what the last SyncChanges returned ("" while running)
  lastErr,       \* per driver: error of the last LoopSync ("none" when it succeeded)
  stmts,         \* per driver: statements the last syncChangeLog issued to the destination
  sawMismatch,   \* per driver: a batch of the current transaction pair reported a wrong count
  dstPre,        \* per driver: destination content when the transaction pair was opened
  dirty,         \* per driver: the source was written after the last snapshot it read
  lastPoll,      \* per driver: summary of the Status() poll that ended the polling loop
  fsLog,         \* per driver: steps FinalSync has completed, in order
  applied,       \* change_log ids read by a drain iteration whose destination tx committed
  flippers,      \* drivers whose FinalSync committed a flip of switchover_state
  calls          \* per driver: number of FinalSync calls made

dbVars == <<src, dst, changeLog, nextId, nWrites, srcSeq, dstSeq, swState, lockHolder,
            dstTriggers, applied, flippers>>
envVars == <<cancelled>>
txVars == <<ids, snapIds, dstW, dstSeqW, dstTx, srcTx, srcFlip, stmts, sawMismatch, dstPre, dirty>>
ctlVars == <<pc, caller, rt, result, syncResult, lastErr, lastPoll, fsLog, calls>>
vars == <<dbVars, envVars, txVars, ctlVars>>

NoWrites == [k \in Keys |-> NoWrite]
EmptyTracker == [base |-> {}, add |-> {}, del |-> {}]
LogIds(log) == {e.id : e \in log}
LogKeys(log) == {e.key : e \in log}

RECURSIVE Reverse(_)
Reverse(s) == IF s = <<>> THEN <<>> ELSE Reverse(Tail(s)) \o <<Head(s)>>

\* ------------------------------------------------------------ row tracker
Exists(tr, k) == k \in tr.base
Commit(tr) == [base |-> (tr.base \cup tr.add) \ tr.del, add |-> {}, del |-> {}]
Rollback(tr) == [base |-> tr.base, add |-> {}, del |-> {}]

\* --------------------------------------------------------- source writers
\* A write to a replicated table appends one change_log entry (the skipped tables
\* have no change-log trigger and are not written here).
Logged(k) ==
  IF SkipSync(k[1]) THEN changeLog ELSE changeLog \cup {[id |-> nextId, key |-> k]}

SrcWrite(k, v) ==
  /\ ~SkipSync(k[1])
  /\ nWrites < MaxWrites
  /\ src' = [src EXCEPT ![k] = v]
  /\ changeLog' = Logged(k)
  /\ nextId' = IF SkipSync(k[1]) THEN nextId ELSE nextId + 1
  /\ nWrites' = nWrites + 1
  /\ srcSeq' = IF src[k] = Absent THEN srcSeq + 1 ELSE srcSeq
  /\ dirty' = [d \in Drivers |-> TRUE]
  /\ UNCHANGED <<dst, dstSeq, swState, lockHolder, dstTriggers, applied, flippers>>
  /\ UNCHANGED <<envVars, ids, snapIds, dstW, dstSeqW, dstTx, srcTx, srcFlip, stmts,
                 sawMismatch, dstPre, ctlVars>>

SrcInsert(k) == src[k] = Absent /\ SrcWrite(k, 1)
SrcUpdate(k) == src[k] # Absent /\ SrcWrite(k, 3 - src[k])
SrcDelete(k) == src[k] # Absent /\ SrcWrite(k, Absent)

Cancel ==
  /\ ~cancelled
  /\ \E d \in Drivers : pc[d] \notin {"off", "done"}
  /\ cancelled' = TRUE
  /\ UNCHANGED <<dbVars, txVars, ctlVars>>

\* ------------------------------------------------------------------------
\* Variants of the definitions below, each with one plausible slip.  A
\* property that really depends on the definition a variant is named after
\* does not survive the slip.
\* ------------------------------------------------------------------------
\* fetch that never notices a row deleted in the source
fetch_NoDelete(t, tids, rows, tr) ==
  LET present == {k \in tids : rows[k] # Absent} IN
  [toUpdate |-> {k \in present : Exists(tr, k)},
   toInsert |-> {k \in present : ~Exists(tr, k)},
   toDelete |-> {}]

\* pending deletes run in the order they were appended
DeleteOrder_Forward(deletes) == deletes

\* apply without the rows-affected check
applyFails_NoCount(kind) == kind = "error"

\* LoopSync that deletes the change_log rows before the destination commit
LoopSyncNext_DeleteFirst(step) ==
  CASE step = "ls_sync" -> "ls_commit_src"
    [] step = "ls_commit_src" -> "ls_delete"
    [] step = "ls_delete" -> "ls_commit_dst"
    [] OTHER -> "ls_return"

\* FinalSync that flips the state and commits the source before the destination
FinalSyncNext_FlipFirst(step) ==
  CASE step = "fs_begin_src" -> "fs_begin_dst"
    [] step = "fs_begin_dst" -> "fs_lock"
    [] step = "fs_lock" -> "fs_state"
    [] step = "fs_state" -> "fs_sync"
    [] step = "fs_sync" -> "fs_setseq"
    [] step = "fs_setseq" -> "fs_update"
    [] step = "fs_update" -> "fs_commit_src"
    [] step = "fs_commit_src" -> "fs_commit_dst"
    [] step = "fs_commit_dst" -> "fs_triggers"
    [] OTHER -> "fs_return"

\* an advisory lock that is granted while another transaction holds it
LockGranted_Always(holder) == TRUE

\* FinalSync without its deferred Rollback calls: a return with an error leaves
\* the transactions, and the lock of the source transaction, as they are
FinalSyncStep_NoDefer(d, step, err, lk, stx, dtx, flip, w, sw) ==
  /\ pc' = [pc EXCEPT ![d] = IF err = "none" /\ step # "fs_commit_src"
                             THEN CASE step = "fs_begin_src" -> "fs_begin_dst"
                                    [] step = "fs_begin_dst" -> "fs_lock"
                                    [] step = "fs_lock" -> "fs_state"
                                    [] step = "fs_state" -> "fs_sync"
                                    [] step = "fs_sync" -> "fs_setseq"
                                    [] step = "fs_setseq" -> "fs_commit_dst"
                                    [] step = "fs_commit_dst" -> "fs_triggers"
                                    [] step = "fs_triggers" -> "fs_update"
                                    [] OTHER -> "fs_commit_src"
                             ELSE "done"]
  /\ result' = [result EXCEPT ![d] = IF err = "none" /\ step # "fs_commit_src" THEN @
                                     ELSE IF err = "none" THEN "nil" ELSE err]
  /\ fsLog' = [fsLog EXCEPT ![d] = IF err = "none" THEN Append(@, step) ELSE @]
  /\ lockHolder' = lk
  /\ srcTx' = [srcTx EXCEPT ![d] = stx]
  /\ dstTx' = [dstTx EXCEPT ![d] = dtx]
  /\ srcFlip' = [srcFlip EXCEPT ![d] = flip]
  /\ dstW' = [dstW EXCEPT ![d] = w]
  /\ dstSeqW' = [dstSeqW EXCEPT ![d] = sw]

\* fetch that stages a DELETE for every id the source no longer has, known to the
\* tracker or not
fetch_DeleteUnknown(t, tids, rows, tr) ==
  LET present == {k \in tids : rows[k] # Absent} IN
  [toUpdate |-> {k \in present : Exists(tr, k)},
   toInsert |-> {k \in present : ~Exists(tr, k)},
   toDelete |-> tids \ present]

\* SyncChanges that returns nil after the first iteration without error, whatever
\* the number of rows it replicated
SyncChangesNext_StopOnSuccess(n, err) ==
  IF err # "none"
  THEN IF n > 0 THEN "fatal" ELSE "continue"
  ELSE "nil"

\* ---------------------------------------------------------- syncChangeLog
\* Classification of the pending ids of one table against the source rows and
\* the tracker.  (Query never yields ErrNoRows, so the branch of line 491 is dead.)
fetch(t, tids, rows, tr) ==
  LET present == {k \in tids : rows[k] # Absent} IN
  [toUpdate |-> {k \in present : Exists(tr, k)},
   toInsert |-> {k \in present : ~Exists(tr, k)},
   toDelete |-> {k \in tids \ present : Exists(tr, k)}]

Op(o, t, ks) == [op |-> o, table |-> t, keys |-> ks]

\* The table loop of syncChangeLog: per table a fetch, then the UPDATE batch and
\* the INSERT batch; apply issues nothing for an empty batch.
RECURSIVE UpsertOps(_, _, _, _)
UpsertOps(i, rows, pend, tr) ==
  IF i > Len(TableOrder) THEN <<>>
  ELSE LET t == TableOrder[i]
           tids == {k \in pend : k[1] = t}
           sd == fetch(t, tids, rows, tr)
       IN (IF SkipSync(t) \/ tids = {} THEN <<>>
           ELSE <<Op("FETCH", t, tids)>>
                \o (IF sd.toUpdate = {} THEN <<>> ELSE <<Op("UPDATE", t, sd.toUpdate)>>)
                \o (IF sd.toInsert = {} THEN <<>> ELSE <<Op("INSERT", t, sd.toInsert)>>))
          \o UpsertOps(i + 1, rows, pend, tr)

\* The deletes slice, appended in table order.
RECURSIVE PendingDeletes(_, _, _, _)
PendingDeletes(i, rows, pend, tr) ==
  IF i > Len(TableOrder) THEN <<>>
  ELSE LET t == TableOrder[i]
           tids == {k \in pend : k[1] = t}
           sd == fetch(t, tids, rows, tr)
       IN (IF SkipSync(t) \/ tids = {} \/ sd.toDelete = {} THEN <<>>
           ELSE <<Op("DELETE", t, sd.toDelete)>>)
          \o PendingDeletes(i + 1, rows, pend, tr)

DeleteOrder(deletes) == Reverse(deletes)

\* Everything one call does after the constraints are deferred, in order.
SyncOps(rows, pend, tr) ==
  UpsertOps(1, rows, pend, tr) \o DeleteOrder(PendingDeletes(1, rows, pend, tr))

\* changeIDs: the id of the first entry seen for each (table, row_id); the query
\* has no ORDER BY, so any entry of a pair may be the first.
Selections(log) ==
  {S \in SUBSET LogIds(log) :
     \A k \in LogKeys(log) : Cardinality({e \in log : e.key = k /\ e.id \in S}) = 1}

\* What the destination answers to a batch: "ok" (no error, rows affected = batch
\* size), "mismatch" (no error, another count) or "error".
applyFails(kind) == kind = "error" \/ kind = "mismatch"
deleteFails(kind) == kind = "error" \/ kind = "mismatch"
OpFails(o, kind) ==
  CASE o.op = "FETCH" -> kind = "error"
    [] o.op = "DELETE" -> deleteFails(kind)
    [] OTHER -> applyFails(kind)

\* <<fp, kind>>: the operation that answers `kind`; fp = -1 is the change_log
\* query, 0 is SET CONSTRAINTS, 1..Len(ops) an operation of ops, Len(ops)+1 none.
Outcomes(log, ops) ==
  {<<-1, "error">>, <<Len(ops) + 1, "ok">>}
  \cup (IF log = {} THEN {}
        ELSE {<<0, "error">>}
             \cup {<<i, "error">> : i \in 1..Len(ops)}
             \cup {<<i, "mismatch">> : i \in {j \in 1..Len(ops) : ops[j].op # "FETCH"}})

OpErr(o) ==
  CASE o.op = "FETCH" -> "fetch changed rows"
    [] o.op = "UPDATE" -> "apply updates"
    [] o.op = "INSERT" -> "apply inserts"
    [] OTHER -> "delete rows"

IsStmt(o) == o.op # "FETCH"

syncChangeLog(rows, log, tr, sel, fp, kind) ==
  LET ops == SyncOps(rows, LogKeys(log), tr)
      failed == fp \in 1..Len(ops) /\ OpFails(ops[fp], kind)
      done == IF fp < 1 THEN <<>> ELSE IF failed THEN SubSeq(ops, 1, fp - 1) ELSE ops
      sent == IF failed /\ IsStmt(ops[fp]) THEN SubSeq(ops, 1, fp) ELSE done
      fetched == {done[i].table : i \in {j \in 1..Len(done) : done[j].op = "FETCH"}}
      sdOf(t) == fetch(t, {k \in LogKeys(log) : k[1] = t}, rows, tr)
      put == UNION {done[i].keys : i \in {j \in 1..Len(done) : done[j].op \in {"UPDATE", "INSERT"}}}
      del == UNION {done[i].keys : i \in {j \in 1..Len(done) : done[j].op = "DELETE"}}
  IN [ids |-> IF fp = -1 THEN {} ELSE sel,
      err |-> CASE fp = -1 -> "fetch changes"
                [] fp = 0 /\ log # {} -> "defer constraints"
                [] failed -> OpErr(ops[fp])
                [] OTHER -> "none",
      tr |-> [base |-> tr.base,
              add |-> tr.add \cup UNION {sdOf(t).toInsert : t \in fetched},
              del |-> tr.del \cup UNION {sdOf(t).toDelete : t \in fetched}],
      w |-> [k \in Keys |-> IF k \in del THEN Absent
                            ELSE IF k \in put THEN rows[k] ELSE NoWrite],
      stmts |-> [i \in 1..Len(SelectSeq(sent, IsStmt)) |->
                   [op |-> SelectSeq(sent, IsStmt)[i].op,
                    table |-> SelectSeq(sent, IsStmt)[i].table]],
      mismatch |-> fp \in 1..Len(ops) /\ kind = "mismatch"]

ApplyWrites(rows, w) == [k \in Keys |-> IF w[k] = NoWrite THEN rows[k] ELSE w[k]]

\* ------------------------------------------------- SyncChanges / LoopSync
FatalErr == "sync failure (commit without record)"

SyncChangesReturn(d, res) ==
  /\ syncResult' = [syncResult EXCEPT ![d] = res]
  /\ IF res = "nil"
     THEN /\ pc' = [pc EXCEPT ![d] = IF caller[d] = "converge" THEN "pause" ELSE "fs_begin_src"]
          /\ result' = result
     ELSE /\ pc' = [pc EXCEPT ![d] = "done"]
          /\ result' = [result EXCEPT ![d] = res]

\* The ok count LoopSync returns with each error.
LoopSyncN(err, nids) ==
  CASE err = "sync tx" -> 0
    [] err = "sync change log" -> 0
    [] err = "commit src" -> nids
    [] err = "commit dst" -> 0
    [] err = "update change log" -> nids
    [] OTHER -> nids

\* What SyncChanges does with the values LoopSync returned.
SyncChangesNext(n, err) ==
  IF err # "none"
  THEN IF n > 0 THEN "fatal" ELSE "continue"
  ELSE IF n # 0 THEN "continue" ELSE "nil"

\* The order of LoopSync's steps after syncTx.
LoopSyncNext(step) ==
  CASE step = "ls_sync" -> "ls_commit_src"
    [] step = "ls_commit_src" -> "ls_commit_dst"
    [] step = "ls_commit_dst" -> "ls_delete"
    [] OTHER -> "ls_return"

\* SyncChanges that commits the tracker's delta after a failed iteration too
LoopSyncEnds_CommitAlways(d, err, nids, tr) ==
  LET next == SyncChangesNext(LoopSyncN(err, nids), err) IN
  /\ lastErr' = [lastErr EXCEPT ![d] = err]
  /\ dstW' = [dstW EXCEPT ![d] = NoWrites]
  /\ dstTx' = [dstTx EXCEPT ![d] = "none"]
  /\ srcTx' = [srcTx EXCEPT ![d] = "none"]
  /\ rt' = [rt EXCEPT ![d] = Commit(tr)]
  /\ CASE next = "fatal" -> SyncChangesReturn(d, FatalErr)
       [] next = "nil" -> SyncChangesReturn(d, "nil")
       [] OTHER -> /\ pc' = [pc EXCEPT ![d] = "sync_top"]
                   /\ UNCHANGED <<result, syncResult>>

\* LoopSync returns err (its deferred rollbacks run) and SyncChanges goes on.
LoopSyncEnds(d, err, nids, tr) ==
  LET next == SyncChangesNext(LoopSyncN(err, nids), err) IN
  /\ lastErr' = [lastErr EXCEPT ![d] = err]
  /\ dstW' = [dstW EXCEPT ![d] = NoWrites]
  /\ dstTx' = [dstTx EXCEPT ![d] = "none"]
  /\ srcTx' = [srcTx EXCEPT ![d] = "none"]
  /\ rt' = [rt EXCEPT ![d] = IF err # "none" THEN Rollback(tr) ELSE Commit(tr)]
  /\ CASE next = "fatal" -> SyncChangesReturn(d, FatalErr)
       [] next = "nil" -> SyncChangesReturn(d, "nil")
       [] OTHER -> /\ pc' = [pc EXCEPT ![d] = "sync_top"]
                   /\ UNCHANGED <<result, syncResult>>

\* LoopSync that goes on to the commits when syncChangeLog returned an error
LoopSyncStep_IgnoreSyncErr(d, step, err, nids, tr, w, dtx, stx) ==
  IF (err = "none" \/ step = "ls_sync") /\ LoopSyncNext(step) # "ls_return"
  THEN /\ pc' = [pc EXCEPT ![d] = LoopSyncNext(step)]
       /\ rt' = [rt EXCEPT ![d] = tr]
       /\ dstW' = [dstW EXCEPT ![d] = w]
       /\ dstTx' = [dstTx EXCEPT ![d] = dtx]
       /\ srcTx' = [srcTx EXCEPT ![d] = stx]
       /\ UNCHANGED <<result, syncResult, lastErr>>
  ELSE LoopSyncEnds(d, err, nids, tr)

\* One step of LoopSync ended with err: go to the next step or return.
LoopSyncStep(d, step, err, nids, tr, w, dtx, stx) ==
  IF err = "none" /\ LoopSyncNext(step) # "ls_return"
  THEN /\ pc' = [pc EXCEPT ![d] = LoopSyncNext(step)]
       /\ rt' = [rt EXCEPT ![d] = tr]
       /\ dstW' = [dstW EXCEPT ![d] = w]
       /\ dstTx' = [dstTx EXCEPT ![d] = dtx]
       /\ srcTx' = [srcTx EXCEPT ![d] = stx]
       /\ UNCHANGED <<result, syncResult, lastErr>>
  ELSE LoopSyncEnds(d, err, nids, tr)

\* for ctx.Err() == nil { ... } return ctx.Err()
SyncChangesTop(d) ==
  /\ pc[d] = "sync_top"
  /\ IF cancelled
     THEN /\ SyncChangesReturn(d, "ctx")
          /\ UNCHANGED <<ids, snapIds, stmts, sawMismatch, dstPre, lastErr>>
     ELSE /\ pc' = [pc EXCEPT ![d] = "ls_begin"]
          /\ ids' = [ids EXCEPT ![d] = {}]
          /\ snapIds' = [snapIds EXCEPT ![d] = {}]
          /\ stmts' = [stmts EXCEPT ![d] = <<>>]
          /\ sawMismatch' = [sawMismatch EXCEPT ![d] = FALSE]
          /\ dstPre' = [dstPre EXCEPT ![d] = dst]
          /\ lastErr' = [lastErr EXCEPT ![d] = "none"]
          /\ UNCHANGED <<result, syncResult>>
  /\ UNCHANGED <<dbVars, envVars, dstW, dstSeqW, dstTx, srcTx, srcFlip, dirty>>
  /\ UNCHANGED <<caller, rt, lastPoll, fsLog, calls>>

\* syncTx: both transactions begin, or neither stays open.
syncTx(d) ==
  /\ pc[d] = "ls_begin"
  /\ \E ok \in BOOLEAN :
       /\ ok => ~cancelled
       /\ IF ok
          THEN /\ pc' = [pc EXCEPT ![d] = "ls_sync"]
               /\ srcTx' = [srcTx EXCEPT ![d] = "open"]
               /\ dstTx' = [dstTx EXCEPT ![d] = "open"]
               /\ UNCHANGED <<rt, dstW, result, syncResult, lastErr>>
          ELSE LoopSyncEnds(d, "sync tx", 0, rt[d])
  /\ UNCHANGED <<dbVars, envVars, ids, snapIds, dstSeqW, srcFlip, stmts, sawMismatch, dstPre, dirty>>
  /\ UNCHANGED <<caller, lastPoll, fsLog, calls>>

LoopSync_syncChangeLog(d) ==
  /\ pc[d] = "ls_sync"
  /\ \E sel \in Selections(changeLog) :
     \E oc \in Outcomes(changeLog, SyncOps(src, LogKeys(changeLog), rt[d])) :
       LET r == syncChangeLog(src, changeLog, rt[d], sel, oc[1], oc[2]) IN
       /\ cancelled => oc[1] = -1
       /\ ids' = [ids EXCEPT ![d] = r.ids]
       /\ snapIds' = [snapIds EXCEPT ![d] = IF oc[1] = -1 THEN {} ELSE LogIds(changeLog)]
       /\ stmts' = [stmts EXCEPT ![d] = r.stmts]
       /\ sawMismatch' = [sawMismatch EXCEPT ![d] = r.mismatch]
       /\ dirty' = [dirty EXCEPT ![d] = IF oc[1] = -1 THEN @ ELSE FALSE]
       /\ LoopSyncStep(d, "ls_sync", IF r.err = "none" THEN "none" ELSE "sync change log",
                       Cardinality(r.ids), r.tr, r.w, dstTx[d], srcTx[d])
  /\ UNCHANGED <<dbVars, envVars, dstSeqW, srcFlip, dstPre>>
  /\ UNCHANGED <<caller, lastPoll, fsLog, calls>>

LoopSync_CommitSrc(d) ==
  /\ pc[d] = "ls_commit_src"
  /\ \E ok \in BOOLEAN :
       /\ ok => ~cancelled
       /\ LoopSyncStep(d, "ls_commit_src", IF ok THEN "none" ELSE "commit src",
                       Cardinality(ids[d]), rt[d], dstW[d], dstTx[d], "committed")
  /\ UNCHANGED <<dbVars, envVars, ids, snapIds, dstSeqW, srcFlip, stmts, sawMismatch, dstPre, dirty>>
  /\ UNCHANGED <<caller, lastPoll, fsLog, calls>>

LoopSync_CommitDst(d) ==
  /\ pc[d] = "ls_commit_dst"
  /\ \E ok \in BOOLEAN :
       /\ ok => ~cancelled
       /\ dst' = IF ok THEN ApplyWrites(dst, dstW[d]) ELSE dst
       /\ applied' = IF ok THEN applied \cup ids[d] ELSE applied
       /\ LoopSyncStep(d, "ls_commit_dst", IF ok THEN "none" ELSE "commit dst",
                       Cardinality(ids[d]), rt[d], NoWrites, "committed", srcTx[d])
  /\ UNCHANGED <<src, changeLog, nextId, nWrites, srcSeq, dstSeq, swState, lockHolder,
                 dstTriggers, flippers>>
  /\ UNCHANGED <<envVars, ids, snapIds, dstSeqW, srcFlip, stmts, sawMismatch, dstPre, dirty>>
  /\ UNCHANGED <<caller, lastPoll, fsLog, calls>>

\* DELETE FROM change_log WHERE id = any(ids)
LoopSync_DeleteChangeLog(d) ==
  /\ pc[d] = "ls_delete"
  /\ \E ok \in BOOLEAN :
       /\ ok => ~cancelled
       /\ changeLog' = IF ok THEN {e \in changeLog : e.id \notin ids[d]} ELSE changeLog
       /\ LoopSyncStep(d, "ls_delete", IF ok THEN "none" ELSE "update change log",
                       Cardinality(ids[d]), rt[d], dstW[d], dstTx[d], srcTx[d])
  /\ UNCHANGED <<src, dst, nextId, nWrites, srcSeq, dstSeq, swState, lockHolder,
                 dstTriggers, applied, flippers>>
  /\ UNCHANGED <<envVars, ids, snapIds, dstSeqW, srcFlip, stmts, sawMismatch, dstPre, dirty>>
  /\ UNCHANGED <<caller, lastPoll, fsLog, calls>>

\* -------------------------------------------------------------- DoExecute
DoExecuteFails(d, err) ==
  /\ pc' = [pc EXCEPT ![d] = "done"]
  /\ result' = [result EXCEPT ![d] = err]

\* ALTER TABLE ... DISABLE TRIGGER USER, one batch on the destination.
DisableTriggers(d) ==
  /\ pc[d] = "disable_triggers"
  /\ \E ok \in BOOLEAN :
       /\ ok => ~cancelled
       /\ IF ok
          THEN /\ dstTriggers' = FALSE
               /\ pc' = [pc EXCEPT ![d] = "initial_sync"]
               /\ UNCHANGED result
          ELSE /\ DoExecuteFails(d, "disable triggers")
               /\ UNCHANGED dstTriggers
  /\ UNCHANGED <<src, dst, changeLog, nextId, nWrites, srcSeq, dstSeq, swState, lockHolder,
                 applied, flippers>>
  /\ UNCHANGED <<envVars, txVars, caller, rt, syncResult, lastErr, lastPoll, fsLog, calls>>

\* Bulk copy of every table that is not skipped.
InitialSync(d) ==
  /\ pc[d] = "initial_sync"
  /\ \E ok \in BOOLEAN :
       /\ ok => ~cancelled
       /\ IF ok
          THEN /\ dst' = [k \in Keys |-> IF SkipSync(k[1]) THEN dst[k] ELSE src[k]]
               /\ pc' = [pc EXCEPT ![d] = "row_tracker"]
               /\ UNCHANGED result
          ELSE /\ DoExecuteFails(d, "initial sync")
               /\ UNCHANGED dst
  /\ UNCHANGED <<src, changeLog, nextId, nWrites, srcSeq, dstSeq, swState, lockHolder,
                 dstTriggers, applied, flippers>>
  /\ UNCHANGED <<envVars, txVars, caller, rt, syncResult, lastErr, lastPoll, fsLog, calls>>

\* The tracker's base set is read from the destination; SyncChanges is entered.
newRowTracker(d) ==
  /\ pc[d] = "row_tracker"
  /\ \E ok \in BOOLEAN :
       /\ ok => ~cancelled
       /\ IF ok
          THEN /\ rt' = [rt EXCEPT ![d] = [base |-> {k \in Keys : dst[k] # Absent},
                                          add |-> {}, del |-> {}]]
               /\ pc' = [pc EXCEPT ![d] = "sync_top"]
               /\ caller' = [caller EXCEPT ![d] = "converge"]
               /\ UNCHANGED result
          ELSE /\ DoExecuteFails(d, "read row IDs")
               /\ UNCHANGED <<rt, caller>>
  /\ UNCHANGED <<dbVars, envVars, txVars, syncResult, lastErr, lastPoll, fsLog, calls>>

Pause(d) ==
  /\ pc[d] = "pause"
  /\ \E ok \in BOOLEAN :
       /\ ok => ~cancelled
       /\ IF ok
          THEN pc' = [pc EXCEPT ![d] = "poll"] /\ UNCHANGED result
          ELSE DoExecuteFails(d, "pause")
  /\ UNCHANGED <<dbVars, envVars, txVars, caller, rt, syncResult, lastErr, lastPoll, fsLog, calls>>

\* A Status() snapshot: per node the number of tasks named pause and resume-after.
NodeTasks == [pause : 0..1, wait : 0..MaxTasks]
Statuses == UNION {[1..n -> NodeTasks] : n \in 0..MaxNodes}

RECURSIVE SumOf(_, _)
SumOf(s, f) == IF s = <<>> THEN 0 ELSE s[1][f] + SumOf(Tail(s), f)

Pausing(s) == SumOf(s, "pause")
Waiting(s) == SumOf(s, "wait")

\* The two tests of the polling loop.
PollDecision(pausing, waiting, nodes) ==
  IF pausing = 0 /\ waiting = nodes THEN "break"
  ELSE IF waiting = 0 THEN "fail" ELSE "again"

\* pausing, waiting and len(s.Nodes) are locals of one tick: lastPoll holds them,
\* and the number of nodes without a resume-after task, for the tick that left
\* the loop.  A tick that stays in the loop waits for the next value of t.C: only
\* the parity of such ticks is kept.
NoPoll ==
  [pausing |-> 0, waiting |-> 0, nodes |-> 0, lacking |-> 0, decision |-> "none", tick |-> 0]

\* One tick of the polling loop.
Poll(d) ==
  /\ pc[d] = "poll"
  /\ \E s \in Statuses :
       LET dec == PollDecision(Pausing(s), Waiting(s), Len(s)) IN
       /\ lastPoll' = [lastPoll EXCEPT ![d] =
             IF dec = "again"
             THEN [NoPoll EXCEPT !.decision = "again", !.tick = 1 - lastPoll[d].tick]
             ELSE [pausing |-> Pausing(s), waiting |-> Waiting(s), nodes |-> Len(s),
                   lacking |-> Cardinality({i \in 1..Len(s) : s[i].wait = 0}),
                   decision |-> dec, tick |-> 0]]
       /\ CASE dec = "break" -> pc' = [pc EXCEPT ![d] = "fs_seqnames"] /\ UNCHANGED result
            [] dec = "fail" -> DoExecuteFails(d, "pause failed")
            [] OTHER -> UNCHANGED <<pc, result>>
  /\ UNCHANGED <<dbVars, envVars, txVars, caller, rt, syncResult, lastErr, fsLog, calls>>

\* -------------------------------------------------------------- FinalSync
\* The order of FinalSync's steps once both transactions are open.
FinalSyncNext(step) ==
  CASE step = "fs_begin_src" -> "fs_begin_dst"
    [] step = "fs_begin_dst" -> "fs_lock"
    [] step = "fs_lock" -> "fs_state"
    [] step = "fs_state" -> "fs_sync"
    [] step = "fs_sync" -> "fs_setseq"
    [] step = "fs_setseq" -> "fs_commit_dst"
    [] step = "fs_commit_dst" -> "fs_triggers"
    [] step = "fs_triggers" -> "fs_update"
    [] step = "fs_update" -> "fs_commit_src"
    [] OTHER -> "fs_return"

\* A step of FinalSync ended with err: go on, or return (the deferred rollbacks
\* end what is still open, which releases the advisory lock).
FinalSyncStep(d, step, err, lk, stx, dtx, flip, w, sw) ==
  IF err = "none" /\ FinalSyncNext(step) # "fs_return"
  THEN /\ pc' = [pc EXCEPT ![d] = FinalSyncNext(step)]
       /\ fsLog' = [fsLog EXCEPT ![d] = Append(@, step)]
       /\ lockHolder' = lk
       /\ srcTx' = [srcTx EXCEPT ![d] = stx]
       /\ dstTx' = [dstTx EXCEPT ![d] = dtx]
       /\ srcFlip' = [srcFlip EXCEPT ![d] = flip]
       /\ dstW' = [dstW EXCEPT ![d] = w]
       /\ dstSeqW' = [dstSeqW EXCEPT ![d] = sw]
       /\ UNCHANGED result
  ELSE /\ pc' = [pc EXCEPT ![d] = "done"]
       /\ result' = [result EXCEPT ![d] = IF err = "none" THEN "nil" ELSE err]
       /\ fsLog' = [fsLog EXCEPT ![d] = IF err = "none" THEN Append(@, step) ELSE @]
       /\ lockHolder' = IF lk = d THEN 0 ELSE lk
       /\ srcTx' = [srcTx EXCEPT ![d] = "none"]
       /\ dstTx' = [dstTx EXCEPT ![d] = "none"]
       /\ srcFlip' = [srcFlip EXCEPT ![d] = FALSE]
       /\ dstW' = [dstW EXCEPT ![d] = NoWrites]
       /\ dstSeqW' = [dstSeqW EXCEPT ![d] = NoWrite]

FsKeep(d, step, err) ==
  FinalSyncStep(d, step, err, lockHolder, srcTx[d], dstTx[d], srcFlip[d], dstW[d], dstSeqW[d])

\* Sequence names are read, the timeouts are set, and SyncChanges catches up.
FinalSync_Start(d) ==
  /\ pc[d] = "fs_seqnames"
  /\ \E ok \in BOOLEAN :
       /\ ok => ~cancelled
       /\ IF ok
          THEN /\ pc' = [pc EXCEPT ![d] = "sync_top"]
               /\ caller' = [caller EXCEPT ![d] = "final"]
               /\ syncResult' = [syncResult EXCEPT ![d] = ""]
               /\ UNCHANGED result
          ELSE /\ DoExecuteFails(d, "get sequence names")
               /\ UNCHANGED <<caller, syncResult>>
  /\ calls' = [calls EXCEPT ![d] = @ + 1]
  /\ fsLog' = [fsLog EXCEPT ![d] = <<>>]
  /\ UNCHANGED <<dbVars, envVars, txVars, rt, lastErr, lastPoll>>

FinalSync_BeginSrc(d) ==
  /\ pc[d] = "fs_begin_src"
  /\ \E ok \in BOOLEAN :
       /\ ok => ~cancelled
       /\ FinalSyncStep(d, "fs_begin_src", IF ok THEN "none" ELSE "begin src",
                        lockHolder, "open", dstTx[d], FALSE, NoWrites, NoWrite)
  /\ UNCHANGED <<src, dst, changeLog, nextId, nWrites, srcSeq, dstSeq, swState,
                 dstTriggers, applied, flippers>>
  /\ UNCHANGED <<envVars, ids, snapIds, stmts, sawMismatch, dstPre, dirty>>
  /\ UNCHANGED <<caller, rt, syncResult, lastErr, lastPoll, calls>>

FinalSync_BeginDst(d) ==
  /\ pc[d] = "fs_begin_dst"
  /\ \E ok \in BOOLEAN :
       /\ ok => ~cancelled
       /\ FinalSyncStep(d, "fs_begin_dst", IF ok THEN "none" ELSE "begin dst",
                        lockHolder, srcTx[d], "open", srcFlip[d], NoWrites, NoWrite)
  /\ dstPre' = [dstPre EXCEPT ![d] = dst]
  /\ sawMismatch' = [sawMismatch EXCEPT ![d] = FALSE]
  /\ stmts' = [stmts EXCEPT ![d] = <<>>]
  /\ ids' = [ids EXCEPT ![d] = {}]
  /\ snapIds' = [snapIds EXCEPT ![d] = {}]
  /\ UNCHANGED <<src, dst, changeLog, nextId, nWrites, srcSeq, dstSeq, swState,
                 dstTriggers, applied, flippers>>
  /\ UNCHANGED <<envVars, dirty, caller, rt, syncResult, lastErr, lastPoll, calls>>

\* pg_advisory_xact_lock grants the lock when no other transaction holds it.
LockGranted(holder) == holder = 0

\* select pg_advisory_xact_lock(GlobalSwitchOver): waits while another
\* transaction holds the lock; lock_timeout ends the wait with an error.
FinalSync_Lock(d) ==
  /\ pc[d] = "fs_lock"
  /\ \E ok \in BOOLEAN :
       /\ ok => (~cancelled /\ LockGranted(lockHolder))
       /\ FinalSyncStep(d, "fs_lock", IF ok THEN "none" ELSE "lock global switchover",
                        IF ok THEN d ELSE lockHolder,
                        srcTx[d], dstTx[d], srcFlip[d], dstW[d], dstSeqW[d])
  /\ UNCHANGED <<src, dst, changeLog, nextId, nWrites, srcSeq, dstSeq, swState,
                 dstTriggers, applied, flippers>>
  /\ UNCHANGED <<envVars, ids, snapIds, stmts, sawMismatch, dstPre, dirty>>
  /\ UNCHANGED <<caller, rt, syncResult, lastErr, lastPoll, calls>>

\* What FinalSync does with the state it read.
StateCheck(stat) ==
  CASE stat = "use_next_db" -> "ErrDone"
    [] stat = "idle" -> "not running"
    [] OTHER -> "none"

FinalSync_ReadState(d) ==
  /\ pc[d] = "fs_state"
  /\ \E ok \in BOOLEAN :
       /\ ok => ~cancelled
       /\ FsKeep(d, "fs_state", IF ok THEN StateCheck(swState) ELSE "get switchover state")
  /\ UNCHANGED <<src, dst, changeLog, nextId, nWrites, srcSeq, dstSeq, swState,
                 dstTriggers, applied, flippers>>
  /\ UNCHANGED <<envVars, ids, snapIds, stmts, sawMismatch, dstPre, dirty>>
  /\ UNCHANGED <<caller, rt, syncResult, lastErr, lastPoll, calls>>

\* The last syncChangeLog, on the transaction pair that holds the lock; the ids
\* it returns are dropped and the tracker is neither committed nor rolled back.
FinalSync_syncChangeLog(d) ==
  /\ pc[d] = "fs_sync"
  /\ \E sel \in Selections(changeLog) :
     \E oc \in Outcomes(changeLog, SyncOps(src, LogKeys(changeLog), rt[d])) :
       LET r == syncChangeLog(src, changeLog, rt[d], sel, oc[1], oc[2]) IN
       /\ cancelled => oc[1] = -1
       /\ snapIds' = [snapIds EXCEPT ![d] = IF oc[1] = -1 THEN {} ELSE LogIds(changeLog)]
       /\ stmts' = [stmts EXCEPT ![d] = r.stmts]
       /\ sawMismatch' = [sawMismatch EXCEPT ![d] = r.mismatch]
       /\ rt' = [rt EXCEPT ![d] = r.tr]
       /\ dirty' = [dirty EXCEPT ![d] = IF oc[1] = -1 THEN @ ELSE FALSE]
       /\ FinalSyncStep(d, "fs_sync", IF r.err = "none" THEN "none" ELSE "sync change log",
                        lockHolder, srcTx[d], dstTx[d], srcFlip[d], r.w, dstSeqW[d])
  /\ UNCHANGED <<src, dst, changeLog, nextId, nWrites, srcSeq, dstSeq, swState,
                 dstTriggers, applied, flippers>>
  /\ UNCHANGED <<envVars, ids, dstPre>>
  /\ UNCHANGED <<caller, syncResult, lastErr, lastPoll, calls>>

\* The sequence values are read from the source and set in the destination tx.
FinalSync_SetSequences(d) ==
  /\ pc[d] = "fs_setseq"
  /\ \E err \in {"none", "get sequence", "set sequences"} :
       /\ err = "none" => ~cancelled
       /\ FinalSyncStep(d, "fs_setseq", err, lockHolder, srcTx[d], dstTx[d], srcFlip[d],
                        dstW[d], srcSeq)
  /\ UNCHANGED <<src, dst, changeLog, nextId, nWrites, srcSeq, dstSeq, swState,
                 dstTriggers, applied, flippers>>
  /\ UNCHANGED <<envVars, ids, snapIds, stmts, sawMismatch, dstPre, dirty>>
  /\ UNCHANGED <<caller, rt, syncResult, lastErr, lastPoll, calls>>

FinalSync_CommitDst(d) ==
  /\ pc[d] = "fs_commit_dst"
  /\ \E ok \in BOOLEAN :
       /\ ok => ~cancelled
       /\ dst' = IF ok THEN ApplyWrites(dst, dstW[d]) ELSE dst
       /\ dstSeq' = IF ok /\ dstSeqW[d] # NoWrite THEN dstSeqW[d] ELSE dstSeq
       /\ FinalSyncStep(d, "fs_commit_dst", IF ok THEN "none" ELSE "commit dst",
                        lockHolder, srcTx[d], "committed", srcFlip[d], NoWrites, NoWrite)
  /\ UNCHANGED <<src, changeLog, nextId, nWrites, srcSeq, swState, dstTriggers, applied,
                 flippers>>
  /\ UNCHANGED <<envVars, ids, snapIds, stmts, sawMismatch, dstPre, dirty>>
  /\ UNCHANGED <<caller, rt, syncResult, lastErr, lastPoll, calls>>

\* ALTER TABLE ... ENABLE TRIGGER USER on the destination connection.
EnableTriggers(d) ==
  /\ pc[d] = "fs_triggers"
  /\ \E ok \in BOOLEAN :
       /\ ok => ~cancelled
       /\ dstTriggers' = IF ok THEN TRUE ELSE dstTriggers
       /\ FsKeep(d, "fs_triggers", IF ok THEN "none" ELSE "enable triggers")
  /\ UNCHANGED <<src, dst, changeLog, nextId, nWrites, srcSeq, dstSeq, swState, applied,
                 flippers>>
  /\ UNCHANGED <<envVars, ids, snapIds, stmts, sawMismatch, dstPre, dirty>>
  /\ UNCHANGED <<caller, rt, syncResult, lastErr, lastPoll, calls>>

\* update switchover_state set current_state = 'use_next_db'
\*   where current_state = 'in_progress'
FinalSync_UpdateState(d) ==
  /\ pc[d] = "fs_update"
  /\ \E ok \in BOOLEAN :
       /\ ok => ~cancelled
       /\ FinalSyncStep(d, "fs_update", IF ok THEN "none" ELSE "update switchover state",
                        lockHolder, srcTx[d], dstTx[d],
                        IF ok THEN swState = "in_progress" ELSE srcFlip[d],
                        dstW[d], dstSeqW[d])
  /\ UNCHANGED <<src, dst, changeLog, nextId, nWrites, srcSeq, dstSeq, swState,
                 dstTriggers, applied, flippers>>
  /\ UNCHANGED <<envVars, ids, snapIds, stmts, sawMismatch, dstPre, dirty>>
  /\ UNCHANGED <<caller, rt, syncResult, lastErr, lastPoll, calls>>

\* The source commit publishes the pending state update and releases the lock.
FinalSync_CommitSrc(d) ==
  /\ pc[d] = "fs_commit_src"
  /\ \E ok \in BOOLEAN :
       /\ ok => ~cancelled
       /\ swState' = IF ok /\ srcFlip[d] THEN "use_next_db" ELSE swState
       /\ flippers' = IF ok /\ srcFlip[d] THEN flippers \cup {d} ELSE flippers
       /\ FinalSyncStep(d, "fs_commit_src", IF ok THEN "none" ELSE "commit src",
                        IF ok /\ lockHolder = d THEN 0 ELSE lockHolder,
                        "committed", dstTx[d], FALSE, dstW[d], dstSeqW[d])
  /\ UNCHANGED <<src, dst, changeLog, nextId, nWrites, srcSeq, dstSeq, dstTriggers, applied>>
  /\ UNCHANGED <<envVars, ids, snapIds, stmts, sawMismatch, dstPre, dirty>>
  /\ UNCHANGED <<caller, rt, syncResult, lastErr, lastPoll, calls>>

\* ------------------------------------------------------- specifications
InitLocals ==
  /\ caller = [d \in Drivers |-> "converge"]
  /\ ids = [d \in Drivers |-> {}]
  /\ snapIds = [d \in Drivers |-> {}]
  /\ dstW = [d \in Drivers |-> NoWrites]
  /\ dstSeqW = [d \in Drivers |-> NoWrite]
  /\ dstTx = [d \in Drivers |-> "none"]
  /\ srcTx = [d \in Drivers |-> "none"]
  /\ srcFlip = [d \in Drivers |-> FALSE]
  /\ result = [d \in Drivers |-> ""]
  /\ syncResult = [d \in Drivers |-> ""]
  /\ lastErr = [d \in Drivers |-> "none"]
  /\ stmts = [d \in Drivers |-> <<>>]
  /\ sawMismatch = [d \in Drivers |-> FALSE]
  /\ dirty = [d \in Drivers |-> FALSE]
  /\ lastPoll = [d \in Drivers |-> NoPoll]
  /\ fsLog = [d \in Drivers |-> <<>>]
  /\ calls = [d \in Drivers |-> 0]
  /\ lockHolder = 0
  /\ applied = {}
  /\ flippers = {}
  /\ cancelled = FALSE

\* One driver runs DoExecute from DisableTriggers on; the change log is installed
\* and the application writes to the source.
Init ==
  /\ InitLocals
  /\ src = [k \in Keys |-> IF k[2] = 1 THEN 1 ELSE Absent]
  /\ dst = [k \in Keys |-> Absent]
  /\ dstPre = [d \in Drivers |-> [k \in Keys |-> Absent]]
  /\ changeLog = {}
  /\ nextId = 1
  /\ nWrites = 0
  /\ srcSeq = 1
  /\ dstSeq = 0
  /\ swState = "in_progress"
  /\ dstTriggers = TRUE
  /\ rt = [d \in Drivers |-> EmptyTracker]
  /\ pc = [d \in Drivers |-> IF d = 1 THEN "disable_triggers" ELSE "off"]

Next ==
  \/ \E k \in Keys : SrcInsert(k)
  \/ \E k \in Keys : SrcUpdate(k)
  \/ \E k \in Keys : SrcDelete(k)
  \/ Cancel
  \/ \E d \in Drivers :
       \/ DisableTriggers(d)
       \/ InitialSync(d)
       \/ newRowTracker(d)
       \/ SyncChangesTop(d)
       \/ syncTx(d)
       \/ LoopSync_syncChangeLog(d)
       \/ LoopSync_CommitSrc(d)
       \/ LoopSync_CommitDst(d)
       \/ LoopSync_DeleteChangeLog(d)
       \/ Pause(d)
       \/ Poll(d)
       \/ FinalSync_Start(d)
       \/ FinalSync_BeginSrc(d)
       \/ FinalSync_BeginDst(d)
       \/ FinalSync_Lock(d)
       \/ FinalSync_ReadState(d)
       \/ FinalSync_syncChangeLog(d)
       \/ FinalSync_SetSequences(d)
       \/ FinalSync_CommitDst(d)
       \/ EnableTriggers(d)
       \/ FinalSync_UpdateState(d)
       \/ FinalSync_CommitSrc(d)

Spec == Init /\ [][Next]_vars

\* FinalSync is called (again) after a call returned.
MaxCalls == 2

CallAgain(d) ==
  /\ pc[d] = "done"
  /\ calls[d] < MaxCalls
  /\ pc' = [pc EXCEPT ![d] = "fs_seqnames"]
  /\ result' = [result EXCEPT ![d] = ""]
  /\ UNCHANGED <<dbVars, envVars, txVars, caller, rt, syncResult, lastErr, lastPoll, fsLog, calls>>

\* What a cutover attempt finds: the bulk copy and the converge phase are over,
\* the nodes are paused (no source writes), and change_log holds the entries the
\* last syncChangeLog left behind or that no drain has read yet.
CutoverRows == [k \in Keys |-> IF k[2] = 1 THEN 1 ELSE Absent]
CutoverLogs == {{}} \cup {{[id |-> 1, key |-> k]} : k \in SyncKeys}
                    \cup {{[id |-> 1, key |-> <<"a", 1>>], [id |-> 2, key |-> <<"a", 1>>]}}

InitAfterConverge ==
  /\ InitLocals
  /\ src = CutoverRows
  /\ changeLog \in CutoverLogs
  /\ nextId = 3
  /\ nWrites = MaxWrites
  /\ srcSeq = 1
  /\ rt = [d \in Drivers |-> [base |-> {k \in SyncKeys : src[k] # Absent}, add |-> {}, del |-> {}]]

\* Two driver instances enter FinalSync on the same source and destination, each
\* with its own connections and row tracker, while the state is in_progress.
InitRace ==
  /\ InitAfterConverge
  /\ dst = [k \in Keys |-> IF SkipSync(k[1]) THEN Absent ELSE src[k]]
  /\ dstPre = [d \in Drivers |-> dst]
  /\ dstSeq = 0
  /\ swState = "in_progress"
  /\ dstTriggers = FALSE
  /\ pc = [d \in Drivers |-> "fs_seqnames"]

NextRace ==
  \E d \in Drivers :
       \/ SyncChangesTop(d)
       \/ syncTx(d)
       \/ LoopSync_syncChangeLog(d)
       \/ LoopSync_CommitSrc(d)
       \/ LoopSync_CommitDst(d)
       \/ LoopSync_DeleteChangeLog(d)
       \/ FinalSync_Start(d)
       \/ FinalSync_BeginSrc(d)
       \/ FinalSync_BeginDst(d)
       \/ FinalSync_Lock(d)
       \/ FinalSync_ReadState(d)
       \/ FinalSync_syncChangeLog(d)
       \/ FinalSync_SetSequences(d)
       \/ FinalSync_CommitDst(d)
       \/ EnableTriggers(d)
       \/ FinalSync_UpdateState(d)
       \/ FinalSync_CommitSrc(d)

SpecRace == InitRace /\ [][NextRace]_vars

\* One driver calls FinalSync, up to MaxCalls times, when the cutover already
\* happened (use_next_db; the application has since written to the destination)
\* or no switchover is running (idle).
InitRerun ==
  /\ InitAfterConverge
  /\ dst \in {[k \in Keys |-> IF SkipSync(k[1]) THEN Absent
                              ELSE IF k = <<"a", 1>> THEN v ELSE src[k]] : v \in {1, 2}}
  /\ dstPre = [d \in Drivers |-> dst]
  /\ dstSeq = 1
  /\ swState \in {"use_next_db", "idle"}
  /\ dstTriggers = (swState = "use_next_db")
  /\ pc = [d \in Drivers |-> IF d = 1 THEN "fs_seqnames" ELSE "off"]

NextRerun ==
  \/ Cancel
  \/ \E d \in Drivers :
       \/ CallAgain(d)
       \/ SyncChangesTop(d)
       \/ syncTx(d)
       \/ LoopSync_syncChangeLog(d)
       \/ LoopSync_CommitSrc(d)
       \/ LoopSync_CommitDst(d)
       \/ LoopSync_DeleteChangeLog(d)
       \/ FinalSync_Start(d)
       \/ FinalSync_BeginSrc(d)
       \/ FinalSync_BeginDst(d)
       \/ FinalSync_Lock(d)
       \/ FinalSync_ReadState(d)

SpecRerun == InitRerun /\ [][NextRerun]_vars

\* ------------------------------------------------------------------ claims
RangeOf(s) == {s[i] : i \in 1..Len(s)}
TableIdx(t) == CHOOSE i \in 1..Len(TableOrder) : TableOrder[i] = t
DeletedIds == {i \in 1..(nextId - 1) : i \notin LogIds(changeLog)}

\* SyncChanges returned nil and FinalSync's last syncChangeLog has not run since.
ReturnedNil(d) ==
  /\ syncResult[d] = "nil"
  /\ \/ pc[d] \in {"pause", "poll", "fs_seqnames", "fs_begin_src", "fs_begin_dst", "fs_lock",
                   "fs_state", "fs_sync"}
     \/ /\ pc[d] = "done"
        /\ result[d] \in {"pause", "pause failed", "get sequence names", "begin src",
                          "begin dst", "lock global switchover", "get switchover state"}

\* C1: once SyncChanges has returned nil and the source has not been written since
\* the snapshot of its last drain iteration (the writers stopped), every table
\* that is not skipped holds in the destination exactly the source's rows with
\* their latest values, and change_log is empty.
C1_Coverage ==
  \A d \in Drivers :
    (ReturnedNil(d) /\ ~dirty[d]) =>
      /\ \A k \in SyncKeys : dst[k] = src[k]
      /\ changeLog = {}

C1_Witness ==
  /\ ReturnedNil(1) /\ ~dirty[1]
  /\ nWrites = MaxWrites
  /\ Cardinality(applied) = MaxWrites
  /\ src[<<"a", 1>>] = Absent
  /\ src[<<"a", 2>>] # Absent
  /\ dst[<<"s", 1>>] # src[<<"s", 1>>]

\* C2: every change_log id that is gone from the source was read by a drain
\* iteration whose destination transaction committed; a step that deletes
\* change_log rows is LoopSync's delete, it deletes only ids of the snapshot that
\* iteration read, and only after that iteration's destination commit succeeded.
C2_DeleteAfterCommit ==
  /\ [](DeletedIds \subseteq applied)
  /\ [][\A e \in changeLog \ changeLog' :
          \E d \in Drivers : /\ pc[d] = "ls_delete"
                             /\ e.id \in snapIds[d]
                             /\ dstTx[d] = "committed"]_vars

C2_Witness ==
  /\ DeletedIds # {}
  /\ changeLog # {}
  /\ pc[1] = "ls_delete"

\* C3: the polling loop is left towards FinalSync only at a poll in which no node
\* has a pause task and every node has a resume-after task.
C3_ProceedsOnlyOnPauseQuorum ==
  \A d \in Drivers :
    lastPoll[d].decision = "break" =>
      /\ lastPoll[d].pausing = 0
      /\ lastPoll[d].lacking = 0

\* C4: FinalSync completes its steps in the order lock, state read, last
\* syncChangeLog, sequence values, destination commit, EnableTriggers, state
\* update, source commit; so once a driver's flip to use_next_db is committed, its
\* destination transaction with the last changes and the sequence value has
\* committed and the destination triggers are enabled.
FsOrder ==
  <<"fs_begin_src", "fs_begin_dst", "fs_lock", "fs_state", "fs_sync", "fs_setseq",
    "fs_commit_dst", "fs_triggers", "fs_update", "fs_commit_src">>

C4_FinalSyncOrder ==
  \A d \in Drivers :
    /\ Len(fsLog[d]) <= Len(FsOrder)
    /\ fsLog[d] = SubSeq(FsOrder, 1, Len(fsLog[d]))
    /\ (d \in flippers /\ swState = "use_next_db") =>
          /\ "fs_commit_dst" \in RangeOf(fsLog[d])
          /\ dstTriggers
          /\ dstSeq # 0
          /\ ~dirty[d] => \A k \in SyncKeys : dst[k] = src[k]

C4_Witness ==
  /\ 1 \in flippers
  /\ swState = "use_next_db"
  /\ stmts[1] # <<>>
  /\ ~dirty[1]

\* C5: while switchover_state reads use_next_db, no step of a FinalSync call
\* changes the destination rows, the destination sequence, change_log, the row
\* tracker's base set or switchover_state.
C5_DoneCallMutatesNothing ==
  [][swState = "use_next_db" =>
       /\ dst' = dst
       /\ dstSeq' = dstSeq
       /\ changeLog' = changeLog
       /\ swState' = swState
       /\ \A d \in Drivers : rt'[d].base = rt[d].base]_vars

\* C6: of two drivers in FinalSync at most one is between the lock and the end of
\* its source transaction, and it holds the lock; at most one commits a flip; a
\* driver that did not flip is never past the state read once the state is
\* use_next_db, and ErrDone is returned right after the lock and the state read,
\* by a driver that did not flip.
InCriticalSection(d) ==
  pc[d] \in {"fs_state", "fs_sync", "fs_setseq", "fs_commit_dst", "fs_triggers",
             "fs_update", "fs_commit_src"}

C6_OneDriverCutsOver ==
  /\ \A d1, d2 \in Drivers : (InCriticalSection(d1) /\ InCriticalSection(d2)) => d1 = d2
  /\ \A d \in Drivers : InCriticalSection(d) => lockHolder = d
  /\ Cardinality(flippers) <= 1
  /\ \A d \in Drivers :
       (swState = "use_next_db" /\ d \notin flippers) =>
          (InCriticalSection(d) => pc[d] = "fs_state")
  /\ \A d \in Drivers :
       result[d] = "ErrDone" =>
          /\ swState = "use_next_db"
          /\ d \notin flippers
          /\ fsLog[d] = <<"fs_begin_src", "fs_begin_dst", "fs_lock">>
  /\ \A d \in Drivers :
       (pc[d] = "done" /\ swState = "use_next_db" /\ d \notin flippers
          /\ fsLog[d] = <<"fs_begin_src", "fs_begin_dst", "fs_lock">>) =>
          result[d] \in {"ErrDone", "get switchover state"}

C6_Witness ==
  /\ flippers = {1}
  /\ result[2] = "ErrDone"
  /\ result[1] = "nil"

\* C7: a drain iteration that read change_log entries and failed at the
\* destination commit ends SyncChanges with the "commit without record" error.
C7_DstCommitFailureIsFatal ==
  \A d \in Drivers :
    (lastErr[d] = "commit dst" /\ ids[d] # {}) =>
      /\ pc[d] = "done"
      /\ result[d] = FatalErr

\* C8: SyncChanges does not return the "commit without record" error for an
\* iteration that committed nothing to the destination (failure in syncTx, in
\* syncChangeLog or in the source commit).
C8_NothingCommittedIsTransient ==
  \A d \in Drivers :
    lastErr[d] \in {"sync tx", "sync change log", "commit src"} =>
      syncResult[d] # FatalErr

\* C9: after a batch reported a rows-affected count other than its size,
\* syncChangeLog has returned an error, the transaction pair is not committed (the
\* destination has its content from before the iteration), no change_log id of
\* the snapshot is deleted and the state is not flipped.
C9_CountMismatchAborts ==
  \A d \in Drivers :
    sawMismatch[d] =>
      /\ pc[d] \notin {"ls_commit_src", "ls_commit_dst", "ls_delete", "fs_setseq",
                       "fs_commit_dst", "fs_triggers", "fs_update", "fs_commit_src"}
      /\ lastErr[d] = "sync change log" \/ result[d] = "sync change log"
      /\ dst = dstPre[d]
      /\ snapIds[d] \subseteq LogIds(changeLog)
      /\ swState = "in_progress"
      /\ d \notin flippers

C9_Witness ==
  /\ sawMismatch[1]
  /\ pc[1] = "sync_top"
  /\ Len(stmts[1]) = 2
  /\ stmts[1][2].op = "DELETE"

\* C10: the statements one syncChangeLog call issues: UPDATE and INSERT batches in
\* ascending table order, UPDATE before INSERT for one table, every DELETE after
\* every UPDATE and INSERT, DELETE batches in descending table order, and none for
\* a SkipSync table or a table without pending row ids.
C10_StatementOrder ==
  \A d \in Drivers :
    /\ \A i, j \in 1..Len(stmts[d]) :
         i < j =>
           LET x == stmts[d][i]
               y == stmts[d][j]
           IN /\ x.op = "DELETE" => (y.op = "DELETE" /\ TableIdx(x.table) > TableIdx(y.table))
              /\ (x.op # "DELETE" /\ y.op # "DELETE") =>
                    \/ TableIdx(x.table) < TableIdx(y.table)
                    \/ (x.table = y.table /\ x.op = "UPDATE" /\ y.op = "INSERT")
    /\ \A i \in 1..Len(stmts[d]) :
         /\ ~SkipSync(stmts[d][i].table)
         /\ snapIds[d] \subseteq LogIds(changeLog) =>
              \E e \in changeLog : e.id \in snapIds[d] /\ e.key[1] = stmts[d][i].table

C10_Witness ==
  /\ Len(stmts[1]) = 2
  /\ stmts[1][1] = [op |-> "DELETE", table |-> "b"]
  /\ stmts[1][2] = [op |-> "DELETE", table |-> "a"]
  /\ pc[1] = "ls_commit_src"

\* C11: syncChangeLog returns every change-log id of the snapshot it read, also
\* the ids of further entries for a (table, row_id) pair it has already seen, so
\* once a LoopSync has returned without error no entry of the snapshot it read
\* is left in change_log.
C11_ReadIdsAllDeleted ==
  \A d \in Drivers :
    /\ pc[d] = "ls_commit_src" => ids[d] = snapIds[d]
    /\ (pc[d] \in {"sync_top", "pause", "fs_begin_src"} /\ lastErr[d] = "none")
         => snapIds[d] \cap LogIds(changeLog) = {}

\* C12: the polling loop returns "pause failed" at a poll when, and only when,
\* that poll counts no resume-after task and no pause task; a poll that counts
\* pause tasks and no resume-after task does not end the loop with that error.
C12_PauseFailedIffNothingRuns ==
  \A d \in Drivers :
    lastPoll[d].decision \in {"break", "fail"} =>
      (lastPoll[d].decision = "fail"
         <=> (lastPoll[d].pausing = 0 /\ lastPoll[d].waiting = 0))

\* ------------------------------------------------------------ progress
\* The driver is a running goroutine and the ticker keeps delivering: the
\* program does not halt while a step is possible.
SpecLive == Init /\ [][Next]_vars /\ WF_vars(Next)

\* C13: when the context is cancelled while the driver polls Status(), and the
\* polls keep showing neither quorum nor failure, the polling loop still ends:
\* a cancelled driver in the polling loop eventually leaves it.
C13_PollingEndsOnCancel ==
  \A d \in Drivers : (cancelled /\ pc[d] = "poll") ~> (pc[d] # "poll")

\* C14: once DisableTriggers has completed, the destination triggers are enabled
\* only by the stop-the-world transaction of FinalSync: they are disabled during
\* the initial sync and every drain, EnableTriggers acts only while its driver's
\* source transaction holds the advisory lock, and whenever the triggers are
\* enabled either that transaction is still under way or it has flipped
\* switchover_state to use_next_db (also after a failed state update or a failed
\* source commit).
TriggersWereDisabled ==
  \A d \in Drivers : pc[d] # "off" => (pc[d] # "disable_triggers" /\ result[d] # "disable triggers")

C14_TriggersEnabledOnlyWithFlip ==
  (TriggersWereDisabled /\ dstTriggers) =>
     \/ \E d \in Drivers : lockHolder = d /\ pc[d] \in {"fs_update", "fs_commit_src"}
     \/ (swState = "use_next_db" /\ flippers # {})

\* FinalSync returned an error other than ErrDone.
FinalSyncFailed(d) ==
  /\ pc[d] = "done"
  /\ calls[d] > 0
  /\ result[d] \notin {"nil", "ErrDone"}

\* C15 as stated: on every path where FinalSync returns an error other than
\* ErrDone, the source and the destination transaction it opened both end rolled
\* back (the destination commit of this call never took effect) and
\* switchover_state keeps the value in_progress.
C15_ErrorRollsBackBoth ==
  \A d \in Drivers :
    FinalSyncFailed(d) =>
      /\ swState = "in_progress"
      /\ lockHolder # d /\ srcTx[d] = "none" /\ dstTx[d] = "none"
      /\ "fs_commit_dst" \notin RangeOf(fsLog[d])

\* C15, amended: on every path where FinalSync returns an error other than
\* ErrDone, no transaction of the call stays open, the source transaction ended
\* rolled back (its lock is released, no flip is visible: switchover_state keeps
\* in_progress), and the destination transaction ended rolled back, leaving the
\* destination as it was when the transaction began, unless the error came after
\* the destination commit (EnableTriggers, state update, source commit): then
\* the destination transaction stays committed.
C15_ErrorRollsBackUncommitted ==
  \A d \in Drivers :
    FinalSyncFailed(d) =>
      /\ swState = "in_progress"
      /\ lockHolder # d /\ srcTx[d] = "none" /\ dstTx[d] = "none"
      /\ dstW[d] = NoWrites /\ dstSeqW[d] = NoWrite /\ ~srcFlip[d]
      /\ "fs_commit_src" \notin RangeOf(fsLog[d])
      /\ ("fs_begin_dst" \in RangeOf(fsLog[d]) /\ "fs_commit_dst" \notin RangeOf(fsLog[d]))
           => dst = dstPre[d]
      /\ "fs_commit_dst" \in RangeOf(fsLog[d])
           => result[d] \in {"enable triggers", "update switchover state", "commit src"}

C15_Witness ==
  /\ FinalSyncFailed(1)
  /\ result[1] = "commit src"
  /\ "fs_commit_dst" \in RangeOf(fsLog[1])
  /\ dst # dstPre[1]
  /\ swState = "in_progress"

\* -------------------------------------------------------- a later attempt
\* FinalSync's catch-up SyncChanges has just returned nil; since its last drain
\* read change_log, at most one write reached the source (the nodes were not yet
\* all paused).  From here on the source is not written.  FinalSync may fail and
\* be called again, up to MaxCalls times, with the same tracker.
LateWrites ==
  {[src |-> CutoverRows, log |-> {}, seq |-> 1]}
  \cup {[src |-> [CutoverRows EXCEPT ![w[1]] = w[2]],
         log |-> {[id |-> 1, key |-> w[1]]},
         seq |-> IF CutoverRows[w[1]] = Absent THEN 2 ELSE 1] :
          w \in {x \in SyncKeys \X {Absent, 1, 2} :
                  /\ x[2] # CutoverRows[x[1]]
                  /\ CutoverRows[x[1]] = Absent => x[2] = 1}}

InitRetry ==
  /\ \E w \in LateWrites : src = w.src /\ changeLog = w.log /\ srcSeq = w.seq
  /\ dst = [k \in Keys |-> IF SkipSync(k[1]) THEN Absent ELSE CutoverRows[k]]
  /\ dstPre = [d \in Drivers |-> dst]
  /\ rt = [d \in Drivers |-> [base |-> {k \in SyncKeys : dst[k] # Absent}, add |-> {}, del |-> {}]]
  /\ nextId = 2
  /\ nWrites = MaxWrites
  /\ dstSeq = 0
  /\ swState = "in_progress"
  /\ dstTriggers = FALSE
  /\ lockHolder = 0
  /\ applied = {}
  /\ flippers = {}
  /\ cancelled = FALSE
  /\ pc = [d \in Drivers |-> IF d = 1 THEN "fs_begin_src" ELSE "off"]
  /\ caller = [d \in Drivers |-> "final"]
  /\ calls = [d \in Drivers |-> IF d = 1 THEN 1 ELSE 0]
  /\ syncResult = [d \in Drivers |-> IF d = 1 THEN "nil" ELSE ""]
  /\ result = [d \in Drivers |-> ""]
  /\ lastErr = [d \in Drivers |-> "none"]
  /\ ids = [d \in Drivers |-> {}]
  /\ snapIds = [d \in Drivers |-> {}]
  /\ dstW = [d \in Drivers |-> NoWrites]
  /\ dstSeqW = [d \in Drivers |-> NoWrite]
  /\ dstTx = [d \in Drivers |-> "none"]
  /\ srcTx = [d \in Drivers |-> "none"]
  /\ srcFlip = [d \in Drivers |-> FALSE]
  /\ stmts = [d \in Drivers |-> <<>>]
  /\ sawMismatch = [d \in Drivers |-> FALSE]
  /\ dirty = [d \in Drivers |-> changeLog # {}]
  /\ lastPoll = [d \in Drivers |-> NoPoll]
  /\ fsLog = [d \in Drivers |-> <<>>]

NextRetry ==
  \E d \in Drivers :
       \/ CallAgain(d)
       \/ SyncChangesTop(d)
       \/ syncTx(d)
       \/ LoopSync_syncChangeLog(d)
       \/ LoopSync_CommitSrc(d)
       \/ LoopSync_CommitDst(d)
       \/ LoopSync_DeleteChangeLog(d)
       \/ FinalSync_Start(d)
       \/ FinalSync_BeginSrc(d)
       \/ FinalSync_BeginDst(d)
       \/ FinalSync_Lock(d)
       \/ FinalSync_ReadState(d)
       \/ FinalSync_syncChangeLog(d)
       \/ FinalSync_SetSequences(d)
       \/ FinalSync_CommitDst(d)
       \/ EnableTriggers(d)
       \/ FinalSync_UpdateState(d)
       \/ FinalSync_CommitSrc(d)

SpecRetry == InitRetry /\ [][NextRetry]_vars

\* An earlier FinalSync call of d got past EnableTriggers and did not flip the
\* state: it failed at the state update or at the source commit, after its
\* destination commit.
RetryAfterLateFailure(d) ==
  /\ calls[d] >= 2
  /\ caller[d] = "final"
  /\ dstTriggers
  /\ swState = "in_progress"
  /\ pc[d] \in {"sync_top", "ls_begin", "ls_sync", "ls_commit_src", "ls_commit_dst", "ls_delete"}

\* C16: when FinalSync failed at the state update or at the source commit after
\* its destination commit, and the source is not written any more, the drain of
\* a later FinalSync call finds change_log empty, reads no entry, issues no
\* statement to the destination, and a later call that returns nil leaves
\* switchover_state = use_next_db.
C16_RetryDrainsNothing ==
  \A d \in Drivers :
    /\ RetryAfterLateFailure(d) =>
         /\ changeLog = {}
         /\ snapIds[d] = {}
         /\ stmts[d] = <<>>
    /\ (pc[d] = "done" /\ calls[d] >= 2 /\ result[d] = "nil") => swState = "use_next_db"

\* The drain iteration of d is under way, or has just returned an error.
InIteration(d) ==
  \/ pc[d] \in {"ls_begin", "ls_sync", "ls_commit_src", "ls_commit_dst", "ls_delete"}
  \/ (pc[d] \in {"sync_top", "done"} /\ lastErr[d] # "none")

\* The destination content a successful completion of d's iteration produces:
\* every batch of the snapshot d read, applied to the content the destination
\* had when the iteration began.
SnapLog(d) == {e \in changeLog : e.id \in snapIds[d]}
CompletedContent(d) ==
  LET ops == SyncOps(src, LogKeys(SnapLog(d)), rt[d]) IN
  ApplyWrites(dstPre[d], syncChangeLog(src, SnapLog(d), rt[d], ids[d], Len(ops) + 1, "ok").w)

\* C17: whenever a drain iteration is interrupted (by cancellation at any point,
\* or by any failing step), the committed destination content is the content
\* from before the iteration or the content its successful completion produces,
\* never a part of its updates, inserts and deletes.  (The completed content is
\* computed from the source as the iteration's snapshot saw it, so states in
\* which the source was written after the snapshot are compared only with the
\* content from before the iteration.)
C17_NoPartialIteration ==
  \A d \in Drivers :
    InIteration(d) =>
      \/ dst = dstPre[d]
      \/ dirty[d]
      \/ /\ snapIds[d] \subseteq LogIds(changeLog)
         /\ pc[d] \notin {"ls_begin", "ls_sync", "ls_commit_src", "ls_commit_dst"}
         /\ dst = CompletedContent(d)

C17_Witness ==
  /\ cancelled
  /\ pc[1] = "done"
  /\ lastErr[1] = "update change log"
  /\ Len(stmts[1]) = 2
  /\ ~dirty[1]
  /\ dst # dstPre[1]

\* The statements one syncChangeLog stages for key k, from the source rows, the
\* pending keys and the tracker.
StagedFor(k, rows, pend, tr) ==
  LET ops == SyncOps(rows, pend, tr) IN
  {i \in 1..Len(ops) : IsStmt(ops[i]) /\ k \in ops[i].keys}

StagedOps(k, rows, pend, tr) ==
  {SyncOps(rows, pend, tr)[i].op : i \in StagedFor(k, rows, pend, tr)}

\* C18: for every pending (table, row_id) of a drain, fetch stages exactly one
\* operation, chosen from the source's current row and the tracker: present and
\* known gives UPDATE; present and unknown gives INSERT and a pending tracker
\* addition; absent and known gives DELETE and a pending tracker removal; absent
\* and unknown gives no statement and no tracker change.  Keys that are not
\* pending get nothing.  (Read in the states where the drain's syncChangeLog has
\* returned and the source is still as its snapshot saw it.)
C18_FetchStagesOneOperation ==
  \A d \in Drivers :
    (pc[d] = "ls_commit_src" /\ ~dirty[d]) =>
      /\ stmts[d] = [i \in 1..Len(SelectSeq(SyncOps(src, LogKeys(changeLog), rt[d]), IsStmt)) |->
                       [op |-> SelectSeq(SyncOps(src, LogKeys(changeLog), rt[d]), IsStmt)[i].op,
                        table |-> SelectSeq(SyncOps(src, LogKeys(changeLog), rt[d]), IsStmt)[i].table]]
      /\ \A k \in Keys :
           LET pending == k \in LogKeys(changeLog)
               present == src[k] # Absent
               known == Exists(rt[d], k)
               staged == StagedOps(k, src, LogKeys(changeLog), rt[d])
               once == Cardinality(StagedFor(k, src, LogKeys(changeLog), rt[d])) <= 1
               w == dstW[d][k]
               added == k \in rt[d].add
               removed == k \in rt[d].del
           IN /\ once
              /\ (pending /\ present /\ known) =>
                   (staged = {"UPDATE"} /\ w = src[k] /\ ~added /\ ~removed)
              /\ (pending /\ present /\ ~known) =>
                   (staged = {"INSERT"} /\ w = src[k] /\ added /\ ~removed)
              /\ (pending /\ ~present /\ known) =>
                   (staged = {"DELETE"} /\ w = Absent /\ ~added /\ removed)
              /\ (pending /\ ~present /\ ~known) =>
                   (staged = {} /\ w = NoWrite /\ ~added /\ ~removed)
              /\ ~pending => (staged = {} /\ w = NoWrite /\ ~added /\ ~removed)

\* A known row was updated and then deleted within one drain window: the drain
\* stages one DELETE and nothing else.
C18_Witness ==
  /\ pc[1] = "ls_commit_src"
  /\ ~dirty[1]
  /\ Cardinality({e \in changeLog : e.key = <<"a", 1>>}) = 2
  /\ LogKeys(changeLog) = {<<"a", 1>>}
  /\ src[<<"a", 1>>] = Absent
  /\ Exists(rt[1], <<"a", 1>>)
  /\ stmts[1] = <<[op |-> "DELETE", table |-> "a"]>>

\* The tracker of d answers Exists exactly for the rows the committed
\* destination holds, and carries no pending delta.
TrackerMatches(d) ==
  /\ \A k \in Keys : Exists(rt[d], k) <=> dst[k] # Absent
  /\ rt[d].add = {} /\ rt[d].del = {}

\* C19: at the start of every drain iteration of SyncChanges (the first one,
\* one after rt.Commit(), one after rt.Rollback() and continue) and when
\* SyncChanges has returned nil, Exists(t, id) is true exactly when the committed
\* destination table t holds a row with primary key id.
C19_TrackerMatchesDestination ==
  \A d \in Drivers :
    (pc[d] \in {"sync_top", "ls_begin"} \/ ReturnedNil(d)) => TrackerMatches(d)

\* An iteration staged an INSERT and a tracker addition, its destination commit
\* failed, and SyncChanges rolled the tracker back before continuing.
C19_Witness ==
  /\ pc[1] = "sync_top"
  /\ lastErr[1] = "commit dst"
  /\ \E i \in 1..Len(stmts[1]) : stmts[1][i].op = "INSERT"
  /\ TrackerMatches(1)

\* ------------------------------------------------- a drain without failures
\* DoExecute up to the return of the converge SyncChanges, while the application
\* writes to the source.  No database operation fails unless the context is
\* cancelled.
DrainAction(d) ==
  \/ DisableTriggers(d)
  \/ InitialSync(d)
  \/ newRowTracker(d)
  \/ SyncChangesTop(d)
  \/ syncTx(d)
  \/ LoopSync_syncChangeLog(d)
  \/ LoopSync_CommitSrc(d)
  \/ LoopSync_CommitDst(d)
  \/ LoopSync_DeleteChangeLog(d)

Unfailing(d) == lastErr'[d] = "none" /\ result'[d] \in {"", "ctx"}

DrainStep(d) == DrainAction(d) /\ (cancelled \/ Unfailing(d))

NextDrain ==
  \/ \E k \in Keys : SrcInsert(k)
  \/ \E k \in Keys : SrcUpdate(k)
  \/ \E k \in Keys : SrcDelete(k)
  \/ Cancel
  \/ \E d \in Drivers : DrainStep(d)

SpecDrain == Init /\ [][NextDrain]_vars /\ WF_vars(NextDrain)

SyncChangesReturned(d) == pc[d] \in {"pause", "done"}

====
